---- MODULE Spec2Model ----
(***************************************************************************)
(* Turn coordinator (HomePage) and peer mesh manager (AudioManager) of the *)
(* group reading client.                                                   *)
(*                                                                         *)
(* The client is single threaded: every action below is one task of the    *)
(* event loop (a click handler up to its first await, the continuation of  *)
(* an await, a timer callback), followed by the React render it causes and *)
(* the effects of that render, run until no dependency changes any more    *)
(* (state updates of one task are batched into one render).                *)
(*                                                                         *)
(* The queue service is external: every response to a status fetch is      *)
(* drawn from the snapshots and failures the REST interface can return.    *)
(* Presentation state (toast, isExpanded, loading, the displayed auto-skip *)
(* seconds, document state) decides no transition and is left out.         *)
(***************************************************************************)
EXTENDS Integers, FiniteSets, Sequences, TLC

\* ------------------------------------------------------------- bounds
\* Sessions one page load may go through.
MaxJoins == 1
\* Requests to the queue service that may be in flight at once.
MaxInFlight == 1

\* ------------------------------------------------- program constants
AUTO_SKIP_SECONDS == 10
POSITION_2_TIMER_DURATION == 30

VARIABLES
  hp,    \* HomePage: React state and refs
  am,    \* the AudioManager object constructed last
  tm,    \* the browser's pending timers
  net,   \* requests and promises in flight, and the roster of the service
  log    \* bookkeeping of the run: sessions joined, skips the timer has sent,
         \* envelopes dropped, snapshots in a row that report isPosition2
         \* and isPosition1,
         \* status fetches in a row that failed, turn notifications raised
         \* (the user has granted them), connections createPeerConnection
         \* gave up; and the sessions, the requests in
         \* flight and the poll callbacks at work the run is bounded to

vars == <<hp, am, tm, net, log>>

W == [hp |-> hp, am |-> am, tm |-> tm, net |-> net, log |-> log]

Commit(w) ==
  \E v \in {w} :
    /\ hp' = v.hp
    /\ am' = v.am
    /\ tm' = v.tm
    /\ net' = v.net
    /\ log' = v.log

\* The two builds of the page: src/frontend/src/pages/HomePage.js, with the
\* auto-skip timer of position 1, and part_002, with the get-ready timer of
\* position 2. hp.build names the one that is loaded.
Builds == {"HomePage.js", "part_002"}

GetReadyBuild(w) == w.hp.build = "part_002"

\* ------------------------------------------------------ queue snapshot
Snapshots == {"p1", "p2", "other"}

isPosition1(q) == q = "p1"

isPosition2(q) == q = "p2"

\* Bookkeeping of a run that keeps a history: a count goes up to max and
\* stays there. A negative count is one that is not kept.
Count(n, max) == IF n < 0 \/ n >= max THEN n ELSE n + 1

Reset(n) == IF n < 0 THEN n ELSE 0

\* ------------------------------------------------------ browser timers
Handles(w) ==
  {t.id : t \in w.tm.timeouts} \cup {i.id : i \in w.tm.intervals}
    \cup {w.hp.pollingInterval, w.hp.autoSkipTimeout, w.hp.timerInterval,
          w.hp.position2TimerInterval, w.hp.position2TimeoutRef,
          w.am.pollingInterval}

NewHandle(w) ==
  CHOOSE n \in 1..(Cardinality(Handles(w)) + 1) :
    /\ n \notin Handles(w)
    /\ \A m \in 1..(n - 1) : m \in Handles(w)

clearTimeout(w, id) ==
  [w EXCEPT !.tm.timeouts = {t \in @ : t.id # id}]

clearInterval(w, id) ==
  [w EXCEPT !.tm.intervals = {i \in @ : i.id # id}]

setTimeout(w, id, kind, seconds) ==
  [w EXCEPT !.tm.timeouts = @ \cup
     {[id |-> id, kind |-> kind, remaining |-> seconds,
       sessionId |-> w.hp.sessionId,
       hasStartedReading |-> w.hp.hasStartedReading]}]

setInterval(w, id, kind, seconds) ==
  [w EXCEPT !.tm.intervals = @ \cup
     {[id |-> id, kind |-> kind, secondsLeft |-> seconds, due |-> FALSE]}]

\* Requests to the queue service that are in flight.
InFlight(n) ==
  n.status + n.autoSkip + n.position2Skip + Cardinality(n.actions)
    + (IF n.join = "none" THEN 0 ELSE 1) + (IF n.leave THEN 1 ELSE 0)

\* ------------------------------------------------------- AudioManager
\* Session ids of the other participants of the sub-group, and the entry of
\* the roster that carries the local session id.
Peers == {"a", "b"}

Self == "self"

\* peerConnections[p] of a peer without an entry.
NoPc == [role |-> "none", signalingState |-> "none", remote |-> "none"]

\* new RTCPeerConnection(config)
NewPc(role) == [role |-> role, signalingState |-> "stable", remote |-> "none"]

NewAudioManager(sid) ==
  [sessionId |-> sid, localStream |-> FALSE, enabled |-> FALSE,
   isMuted |-> TRUE, isInitialized |-> FALSE, pollingInterval |-> 0,
   peerConnections |-> [p \in Peers |-> NoPc]]

\* connectToPeers when it is not running.
NoConnect == [stage |-> "idle", peer |-> "none", todo |-> <<>>, closed |-> FALSE]

AM_getMuteState(w) == w.am.isMuted

\* Track events one connection may deliver.
MaxTracks == 2

\* cleanup, for every key of peerConnections: document.getElementById finds
\* the first element with the id of the peer, and that one is removed.
RemoveAudioElements(w) ==
  [p \in Peers |->
     IF w.am.peerConnections[p].role # "none" /\ w.tm.audio[p] > 0
     THEN w.tm.audio[p] - 1
     ELSE w.tm.audio[p]]

\* A toggleMute that inverts the flag and leaves the track as it is.
AM_toggleMute_flagOnly(w) ==
  [w EXCEPT !.am.isMuted = ~@]

\* A toggleMute that releases the capture when it mutes.
AM_toggleMute_stopsCapture(w) ==
  [w EXCEPT !.am.isMuted = ~@,
            !.am.enabled = FALSE,
            !.am.localStream = @ /\ w.am.isMuted]

AM_toggleMute(w) ==
  [w EXCEPT !.am.isMuted = ~@,
            !.am.enabled = IF w.am.localStream THEN w.am.isMuted ELSE @]

\* A cleanup that stops the poll loop and the stream and forgets no connection.
AM_cleanup_keepsConnections(w) ==
  LET w1 == IF w.am.pollingInterval # 0
            THEN [clearInterval(w, w.am.pollingInterval)
                    EXCEPT !.am.pollingInterval = 0]
            ELSE w
  IN [w1 EXCEPT !.tm.audio = RemoveAudioElements(w),
                !.am.localStream = FALSE,
                !.am.enabled = FALSE,
                !.am.isInitialized = FALSE]

AM_cleanup(w) ==
  LET w1 == IF w.am.pollingInterval # 0
            THEN [clearInterval(w, w.am.pollingInterval)
                    EXCEPT !.am.pollingInterval = 0]
            ELSE w
  IN [w1 EXCEPT !.am.peerConnections = [p \in Peers |-> NoPc],
                !.tm.audio = RemoveAudioElements(w),
                !.net.connect.closed = (w.net.connect.peer # "none"),
                !.net.ticks = [i \in DOMAIN w.net.ticks |->
                                 [w.net.ticks[i] EXCEPT
                                    !.closed = (w.net.ticks[i].from # "none")]],
                !.am.localStream = FALSE,
                !.am.enabled = FALSE,
                !.am.isInitialized = FALSE]

\* ------------------------------------------------- HomePage.js: timers
startPolling(w) ==
  LET w1 == IF w.hp.pollingInterval # 0
            THEN clearInterval(w, w.hp.pollingInterval) ELSE w
      id == NewHandle(w1)
  IN [setInterval(w1, id, "poll", 0) EXCEPT !.hp.pollingInterval = id]

startAutoSkipTimer(w) ==
  LET w1 == IF w.hp.autoSkipTimeout # 0
            THEN clearTimeout(w, w.hp.autoSkipTimeout) ELSE w
      w2 == IF w1.hp.timerInterval # 0
            THEN clearInterval(w1, w1.hp.timerInterval) ELSE w1
      iv == NewHandle(w2)
      w3 == [setInterval(w2, iv, "countdown", AUTO_SKIP_SECONDS)
               EXCEPT !.hp.timerInterval = iv]
      to == NewHandle(w3)
  IN [setTimeout(w3, to, "autoSkip", AUTO_SKIP_SECONDS)
        EXCEPT !.hp.autoSkipTimeout = to, !.log.autoSkips = 0]

\* The handles are passed to clearTimeout/clearInterval and then set to null.
ClearAutoSkipRefs(w) ==
  LET w1 == IF w.hp.autoSkipTimeout # 0
            THEN [clearTimeout(w, w.hp.autoSkipTimeout)
                    EXCEPT !.hp.autoSkipTimeout = 0]
            ELSE w
  IN IF w1.hp.timerInterval # 0
     THEN [clearInterval(w1, w1.hp.timerInterval) EXCEPT !.hp.timerInterval = 0]
     ELSE w1

\* A stop that clears the countdown and leaves the timeout pending.
StopAutoSkipTimers_countdownOnly(w) ==
  IF w.hp.timerInterval # 0
  THEN clearInterval(w, w.hp.timerInterval) ELSE w

\* The handles are passed to clearTimeout/clearInterval and kept.
StopAutoSkipTimers(w) ==
  LET w1 == IF w.hp.autoSkipTimeout # 0
            THEN clearTimeout(w, w.hp.autoSkipTimeout) ELSE w
  IN IF w1.hp.timerInterval # 0
     THEN clearInterval(w1, w1.hp.timerInterval) ELSE w1

\* Mute the local track unless it is muted already, and show it as muted.
ForceMute(w) ==
  IF w.hp.audioManager
  THEN [(IF ~AM_getMuteState(w) THEN AM_toggleMute(w) ELSE w)
          EXCEPT !.hp.isMuted = TRUE]
  ELSE w

\* ---------------------------------------------------- part_002: timers
\* A clear that forgets the timeout without cancelling it.
clearPosition2Timer_keepsTimeout(w) ==
  LET w1 == IF w.hp.position2TimerInterval # 0
            THEN [clearInterval(w, w.hp.position2TimerInterval)
                    EXCEPT !.hp.position2TimerInterval = 0]
            ELSE w
  IN [w1 EXCEPT !.hp.position2TimeoutRef = 0,
                !.hp.position2Timer = POSITION_2_TIMER_DURATION,
                !.hp.isPosition2TimerActive = FALSE]

clearPosition2Timer(w) ==
  LET w1 == IF w.hp.position2TimerInterval # 0
            THEN [clearInterval(w, w.hp.position2TimerInterval)
                    EXCEPT !.hp.position2TimerInterval = 0]
            ELSE w
      w2 == IF w1.hp.position2TimeoutRef # 0
            THEN [clearTimeout(w1, w1.hp.position2TimeoutRef)
                    EXCEPT !.hp.position2TimeoutRef = 0]
            ELSE w1
  IN [w2 EXCEPT !.hp.position2Timer = POSITION_2_TIMER_DURATION,
                !.hp.isPosition2TimerActive = FALSE]

\* A start that sets up the countdown and no timeout.
startPosition2Timer_countdownOnly(w, r) ==
  LET w1 == clearPosition2Timer(w)
      iv == NewHandle(w1)
  IN [setInterval(w1, iv, "position2", POSITION_2_TIMER_DURATION)
        EXCEPT !.hp.position2TimerInterval = iv,
               !.hp.isPosition2TimerActive = TRUE,
               !.hp.position2Timer = POSITION_2_TIMER_DURATION]

\* r is the state of the render the callback was created in.
startPosition2Timer(w, r) ==
  LET w1 == clearPosition2Timer(w)
      iv == NewHandle(w1)
      w2 == [setInterval(w1, iv, "position2", POSITION_2_TIMER_DURATION)
               EXCEPT !.hp.position2TimerInterval = iv,
                      !.hp.isPosition2TimerActive = TRUE,
                      !.hp.position2Timer = POSITION_2_TIMER_DURATION]
      to == NewHandle(w2)
  IN [w2 EXCEPT !.hp.position2TimeoutRef = to,
                !.tm.timeouts = @ \cup
                  {[id |-> to, kind |-> "position2",
                    remaining |-> POSITION_2_TIMER_DURATION,
                    sessionId |-> r.sessionId,
                    hasStartedReading |-> r.hasStartedReading]}]

\* What handleSessionEnd and leaveQueue do first, and the cleanup of the
\* userRole effect: the poll loop is stopped through its ref, which keeps its
\* value, and so are the auto-skip timers (HomePage.js); the get-ready timer
\* is cleared (part_002).
StopTimers(w) ==
  LET w1 == IF w.hp.pollingInterval # 0
            THEN clearInterval(w, w.hp.pollingInterval) ELSE w
  IN IF GetReadyBuild(w) THEN clearPosition2Timer(w1) ELSE StopAutoSkipTimers(w1)

\* ------------------------------------------------ HomePage.js: effects
RoleEffectCleanup(w) == StopTimers(w)

PollingEffect(w) ==
  IF w.hp.sessionId # 0 /\ w.hp.hasJoined THEN startPolling(w) ELSE w

\* r is the state the render saw; refs and objects are read as they are now.
QueueEffect(w, r) ==
  LET body ==
        IF isPosition1(r.queueStatus)
        THEN LET w1 == IF r.wasPosition2
                       THEN [w EXCEPT !.hp.wasPosition2 = FALSE,
                                      !.log.notifications = Count(@, 1)]
                       ELSE w
             IN IF ~r.hasStartedReading /\ w1.hp.autoSkipTimeout = 0
                THEN startAutoSkipTimer(w1)
                ELSE IF r.hasStartedReading THEN ClearAutoSkipRefs(w1) ELSE w1
        ELSE LET w1 == [StopAutoSkipTimers(w) EXCEPT !.hp.hasStartedReading = FALSE]
             IN IF r.queueStatus # "none" THEN ForceMute(w1) ELSE w1
  IN IF isPosition2(r.queueStatus)
     THEN [body EXCEPT !.hp.wasPosition2 = TRUE]
     ELSE body

\* ---------------------------------------------------- part_002: effects
\* clearPosition2Timer as the effects call it; a run that keeps the count
\* notes a pending get-ready timeout cleared for a render at position 1.
ClearForRender(w, r) ==
  IF isPosition1(r.queueStatus) /\ \E t \in w.tm.timeouts : t.kind = "position2"
  THEN [clearPosition2Timer(w) EXCEPT !.log.cancelled = Count(@, 1)]
  ELSE clearPosition2Timer(w)

Position2Effect(w, r) ==
  IF isPosition2(r.queueStatus) /\ ~r.wasPosition2
  THEN [startPosition2Timer(w, r) EXCEPT !.hp.wasPosition2 = TRUE]
  ELSE IF ~isPosition2(r.queueStatus) /\ r.wasPosition2
  THEN [ClearForRender(w, r) EXCEPT !.hp.wasPosition2 = FALSE]
  ELSE w

Position1Effect(w, r) ==
  IF isPosition1(r.queueStatus)
  THEN [ClearForRender(w, r) EXCEPT !.hp.wasPosition2 = FALSE,
                                   !.log.notifications = Count(@, 1)]
  ELSE LET w1 == [w EXCEPT !.hp.hasStartedReading = FALSE]
       IN IF r.queueStatus # "none" THEN ForceMute(w1) ELSE w1

\* queueStatus?.isPosition2 and queueStatus?.isPosition1 as dependencies.
Optional(q, flag) ==
  IF q = "none" THEN "undefined" ELSE IF flag THEN "true" ELSE "false"

Position2Deps(h) ==
  <<Optional(h.queueStatus, isPosition2(h.queueStatus)), h.wasPosition2, h.sessionId>>

Position1Deps(h) == <<Optional(h.queueStatus, isPosition1(h.queueStatus))>>

PollingDeps(h) == <<h.sessionId, h.hasJoined>>

QueueDeps(h) ==
  <<h.queueStatus, h.wasPosition2, h.hasStartedReading, h.sessionId>>

ReactState(h) ==
  <<h.userRole, h.sessionId, h.hasJoined, h.queueStatus, h.wasPosition2,
    h.hasStartedReading, h.isMuted, h.audioInitialized,
    h.isPosition2TimerActive, h.position2Timer>>

\* The render after a task and the effects it runs, until nothing changes.
RECURSIVE Render(_, _, _)
Render(prev, w, fuel) ==
  LET w0 == IF prev.hp.userRole # w.hp.userRole THEN RoleEffectCleanup(w) ELSE w
      w1 == IF PollingDeps(prev.hp) # PollingDeps(w.hp) THEN PollingEffect(w0) ELSE w0
      w2 == IF GetReadyBuild(w)
            THEN LET w3 == IF Position2Deps(prev.hp) # Position2Deps(w.hp)
                           THEN Position2Effect(w1, w.hp) ELSE w1
                 IN IF Position1Deps(prev.hp) # Position1Deps(w.hp)
                    THEN Position1Effect(w3, w.hp) ELSE w3
            ELSE IF QueueDeps(prev.hp) # QueueDeps(w.hp)
                 THEN QueueEffect(w1, w.hp) ELSE w1
  IN CHOOSE out \in {IF fuel = 0 \/ ReactState(v.hp) = ReactState(w.hp)
                      THEN v
                      ELSE Render(w, v, fuel - 1) : v \in {w2}} : TRUE

\* ----------------------------------------------- HomePage.js: handlers
ReleaseAudio(w) ==
  LET w1 == IF w.hp.audioManager
            THEN [AM_cleanup(w) EXCEPT !.hp.audioManager = FALSE]
            ELSE w
  IN [w1 EXCEPT !.hp.audioInitialized = FALSE, !.hp.isMuted = TRUE]

\* A session end that leaves the manager alone.
handleSessionEnd_keepsManager(w) ==
  [StopTimers(w) EXCEPT
     !.hp.audioInitialized = FALSE, !.hp.isMuted = TRUE,
     !.hp.hasJoined = FALSE,
     !.hp.sessionId = 0,
     !.hp.queueStatus = "none",
     !.hp.userRole = FALSE,
     !.hp.hasStartedReading = FALSE,
     !.log.failures = Reset(@),
     !.log.position1Snapshots = Reset(@),
     !.log.position2Snapshots = 0]

handleSessionEnd(w) ==
  [ReleaseAudio(StopTimers(w)) EXCEPT
     !.hp.hasJoined = FALSE,
     !.hp.sessionId = 0,
     !.hp.queueStatus = "none",
     !.hp.userRole = FALSE,
     !.hp.hasStartedReading = FALSE,
     !.log.failures = Reset(@),
     !.log.position1Snapshots = Reset(@),
     !.log.position2Snapshots = 0]

\* A fetch that starts the auto-skip timer anew at every snapshot with
\* isPosition1 that finds the turn not started.
fetchQueueStatusDone_restartsTimer(w, res) ==
  IF res = "notok" THEN handleSessionEnd(w)
  ELSE IF res = "error" THEN w
  ELSE LET w1 == [w EXCEPT !.hp.queueStatus = res,
                           !.log.position1Snapshots =
                             IF isPosition1(res) THEN Count(@, 2) ELSE Reset(@)]
       IN IF isPosition1(res) /\ ~w.hp.hasStartedReading
          THEN startAutoSkipTimer(w1)
          ELSE w1

\* fetchQueueStatus once its fetch has completed with res.
fetchQueueStatusDone(w, res) ==
  IF res = "notok" THEN handleSessionEnd(w)
  ELSE IF res = "error" THEN [w EXCEPT !.log.failures = Count(@, 3)]
  ELSE [w EXCEPT !.hp.queueStatus = res,
                 !.log.failures = Reset(@),
                 !.log.position1Snapshots =
                   IF isPosition1(res) THEN Count(@, 2) ELSE Reset(@),
                 !.log.position2Snapshots =
                   IF ~isPosition2(res) THEN 0 ELSE IF @ < 2 THEN @ + 1 ELSE @]

StatusResults == Snapshots \cup {"notok", "error"}

\* initializeAudio up to the capture request of AudioManager.initialize.
NoGum == [pending |-> FALSE, startMuted |-> TRUE]

initializeAudio(w, sid, startMuted, supported) ==
  [w EXCEPT !.am = NewAudioManager(sid),
            !.hp.audioManager = TRUE,
            !.net.connect = NoConnect,
            !.net.ticks = <<>>,
            !.net.gum = IF supported
                        THEN [pending |-> TRUE, startMuted |-> startMuted]
                        ELSE NoGum]

\* Timer ids are never reused: a ref that holds the id of a timer that has
\* fired or was cleared is non-null and clears nothing, whatever the id was.
Stale == -1

Live(w) == {t.id : t \in w.tm.timeouts} \cup {i.id : i \in w.tm.intervals}

Ref(live, id) == IF id = 0 \/ id \in live THEN id ELSE Stale

Handle(w) ==
  LET live == Live(w)
  IN [w EXCEPT !.hp.pollingInterval = Ref(live, @),
               !.hp.autoSkipTimeout = Ref(live, @),
               !.hp.timerInterval = Ref(live, @),
               !.hp.position2TimerInterval = Ref(live, @),
               !.hp.position2TimeoutRef = Ref(live, @),
               !.am.pollingInterval = Ref(live, @)]

Step(w) == \E v \in {w} : \E x \in {Render(W, v, 4)} : Commit(Handle(x))

ChooseRole ==
  /\ ~hp.userRole
  /\ Step([W EXCEPT !.hp.userRole = TRUE])

\* The session id the queue service hands out; the client only tests it for null.
NewSessionId == 1

joinQueue ==
  /\ hp.userRole /\ ~hp.hasJoined
  /\ net.join = "none"
  /\ log.joins < log.sessions
  /\ InFlight(net) < log.requests
  /\ Step([W EXCEPT !.net.join = "req"])

joinQueueResponse(ok) ==
  /\ net.join = "req"
  /\ IF ok
     THEN Step([W EXCEPT !.hp.sessionId = NewSessionId,
                         !.hp.hasJoined = TRUE,
                         !.log.joins = @ + 1,
                         !.net.join = "status"])
     ELSE Step([W EXCEPT !.net.join = "none"])

joinQueueStatus(res, supported) ==
  /\ net.join = "status"
  /\ ~net.gum.pending
  /\ LET w1 == [fetchQueueStatusDone(W, res) EXCEPT !.net.join = "none"]
     IN IF res \in Snapshots
        THEN Step(initializeAudio(w1, NewSessionId, ~isPosition1(res), supported))
        \* no manager is made: one value of supported stands for both
        ELSE ~supported /\ Step(w1)

\* AudioManager.initialize after the capture request, and the rest of
\* initializeAudio. The roster fetch of connectToPeers is left in flight.
captureGranted ==
  /\ net.gum.pending
  /\ LET m  == net.gum.startMuted
         w1 == [W EXCEPT !.net.gum = NoGum]
         id == NewHandle(w1)
         w2 == [setInterval(w1, id, "signal", 0) EXCEPT
                  !.am.localStream = TRUE,
                  !.am.isMuted = m,
                  !.am.enabled = ~m,
                  !.am.isInitialized = TRUE,
                  !.am.pollingInterval = id,
                  !.net.connect.stage = "fetch"]
     IN Step([w2 EXCEPT !.hp.audioInitialized = TRUE, !.hp.isMuted = m])

captureDenied ==
  /\ net.gum.pending
  /\ Step([W EXCEPT !.net.gum = NoGum])

pollingIntervalTick ==
  /\ \E i \in tm.intervals : i.kind = "poll"
  /\ InFlight(net) < log.requests
  /\ Step([W EXCEPT !.net.status = @ + 1])

fetchQueueStatusResponse(res) ==
  /\ net.status > 0
  /\ Step(fetchQueueStatusDone([W EXCEPT !.net.status = @ - 1], res))

toggleMute ==
  /\ hp.userRole /\ hp.hasJoined /\ hp.audioInitialized
  /\ IF hp.audioManager
     THEN Step([AM_toggleMute(W) EXCEPT !.hp.isMuted = ~am.isMuted])
     ELSE Step(W)

Actions == {"start", "skip", "finish"}

ActionOffered(action) ==
  /\ hp.userRole /\ hp.hasJoined
  /\ isPosition1(hp.queueStatus)
  /\ IF hp.hasStartedReading THEN action = "finish" ELSE action # "finish"

handleAction(action) ==
  /\ ActionOffered(action)
  /\ hp.sessionId # 0
  /\ action \notin net.actions
  /\ InFlight(net) < log.requests
  /\ LET w1 == IF GetReadyBuild(W) THEN clearPosition2Timer(W) ELSE ClearAutoSkipRefs(W)
         w2 == IF action # "start" THEN ForceMute(w1) ELSE w1
     IN Step([w2 EXCEPT !.net.actions = @ \cup {action}])

handleActionResponse(action, ok) ==
  /\ action \in net.actions
  /\ LET w1 == [W EXCEPT !.net.actions = @ \ {action}]
     IN IF ~ok THEN Step(w1)
        ELSE LET w2 == IF action = "start"
                       THEN LET w3 == [w1 EXCEPT !.hp.hasStartedReading = TRUE]
                            IN IF w3.hp.audioManager
                               THEN [(IF AM_getMuteState(w3) THEN AM_toggleMute(w3) ELSE w3)
                                       EXCEPT !.hp.isMuted = FALSE]
                               ELSE w3
                       ELSE IF GetReadyBuild(w1)
                       THEN [w1 EXCEPT !.hp.hasStartedReading = FALSE]
                       ELSE w1
             IN Step([w2 EXCEPT !.net.status = @ + 1])

leaveQueue ==
  /\ hp.userRole /\ hp.hasJoined
  /\ hp.sessionId # 0
  /\ ~net.leave
  /\ InFlight(net) < log.requests
  /\ Step([StopTimers(W) EXCEPT !.net.leave = TRUE])

leaveQueueResponse(resolved) ==
  /\ net.leave
  /\ LET w1 == [W EXCEPT !.net.leave = FALSE]
     IN IF ~resolved THEN Step(w1)
        ELSE Step([ReleaseAudio(w1) EXCEPT
                     !.hp.sessionId = 0,
                     !.hp.hasJoined = FALSE,
                     !.hp.queueStatus = "none",
                     !.hp.userRole = FALSE,
                     !.log.failures = Reset(@),
                     !.log.position1Snapshots = Reset(@),
                     !.log.position2Snapshots = 0])

\* ------------------------------------------- RTCPeerConnection (browser)
\* What the operations the manager awaits do to a connection when they
\* settle. A closed connection rejects every one of them; the others reject
\* in the signaling states the WebRTC state machine gives no transition for.
CanSetLocalOffer(pc) == pc.signalingState \in {"stable", "have-local-offer"}

SetLocalOffer(pc) == [pc EXCEPT !.signalingState = "have-local-offer"]

\* An offer that arrives while a local offer is pending is applied after an
\* implicit rollback by browsers that implement it and rejected by the others.
CanSetRemoteOffer(pc, rollback) ==
  \/ pc.signalingState \in {"stable", "have-remote-offer"}
  \/ pc.signalingState = "have-local-offer" /\ rollback

SetRemoteOffer(pc) ==
  [pc EXCEPT !.signalingState = "have-remote-offer", !.remote = "offer"]

CanCreateAnswer(pc) == pc.signalingState = "have-remote-offer"

CanSetLocalAnswer(pc) == pc.signalingState = "have-remote-offer"

SetLocalAnswer(pc) == [pc EXCEPT !.signalingState = "stable"]

\* A connection that takes an answer in every signaling state.
CanSetRemoteAnswer_anyState(pc) == pc.signalingState # "none"

CanSetRemoteAnswer(pc) == pc.signalingState = "have-local-offer"

SetRemoteAnswer(pc) ==
  [pc EXCEPT !.signalingState = "stable", !.remote = "answer"]

CanAddIceCandidate(pc) == pc.remote # "none"

\* --------------------------------------------- AudioManager: signalling
HasPc(w, p) == w.am.peerConnections[p] # NoPc

Connected(w) == {p \in Peers : HasPc(w, p)}

\* A loop of connectToPeers that passes over the local session id only.
RECURSIVE connectToPeers_offersAgain(_, _)
connectToPeers_offersAgain(w, todo) ==
  IF todo = <<>> THEN [w EXCEPT !.net.connect = NoConnect]
  ELSE LET p == Head(todo)
       IN IF p = Self
          THEN connectToPeers_offersAgain(w, Tail(todo))
          ELSE [w EXCEPT !.am.peerConnections[p] = NewPc("initiator"),
                         !.net.connect = [stage |-> "createOffer", peer |-> p,
                                          todo |-> Tail(todo), closed |-> FALSE]]

\* The loop of connectToPeers from the entry it has reached: entries with the
\* local session id or with a connection are passed over; createPeerConnection
\* for the first other entry stores a connection and awaits createOffer.
RECURSIVE connectToPeers(_, _)
connectToPeers(w, todo) ==
  IF todo = <<>> THEN [w EXCEPT !.net.connect = NoConnect]
  ELSE LET p == Head(todo)
       IN IF p = Self \/ HasPc(w, p)
          THEN connectToPeers(w, Tail(todo))
          ELSE [w EXCEPT !.am.peerConnections[p] = NewPc("initiator"),
                         !.net.connect = [stage |-> "createOffer", peer |-> p,
                                          todo |-> Tail(todo), closed |-> FALSE]]

\* The orders in which the peers endpoint may list the roster s.
RECURSIVE Lists(_)
Lists(s) ==
  IF s = {} THEN {<<>>}
  ELSE UNION {{<<x>> \o l : l \in Lists(s \ {x})} : x \in s}

\* The lists the peers endpoint may answer with.
Rosters == UNION {Lists(s \cup {Self}) : s \in SUBSET Peers}

connectToPeersResponse(ok, list) ==
  /\ net.connect.stage = "fetch"
  /\ list \in Lists(net.peers \cup {Self})
  /\ IF ok THEN Step(connectToPeers(W, list))
     ELSE /\ list = CHOOSE l \in Lists(net.peers \cup {Self}) : TRUE
          /\ Step([W EXCEPT !.net.connect = NoConnect])

\* The catch of createPeerConnection: the error is logged and the loop of
\* connectToPeers goes on.
createPeerConnection_catch(w) ==
  connectToPeers([w EXCEPT !.log.abandoned = Count(@, 1)], w.net.connect.todo)

\* createPeerConnection after await pc.createOffer().
createPeerConnection_createOffer ==
  /\ net.connect.stage = "createOffer"
  /\ IF net.connect.closed
     THEN Step(createPeerConnection_catch(W))
     ELSE Step([W EXCEPT !.net.connect.stage = "setLocalDescription"])

\* A createPeerConnection whose error ends the loop of connectToPeers.
createPeerConnection_setLocalDescription_throws ==
  /\ net.connect.stage = "setLocalDescription"
  /\ LET p == net.connect.peer
     IN IF net.connect.closed \/ ~CanSetLocalOffer(am.peerConnections[p])
        THEN Step([W EXCEPT !.net.connect = NoConnect,
                            !.log.abandoned = Count(@, 1)])
        ELSE Step([W EXCEPT !.am.peerConnections[p] = SetLocalOffer(@),
                            !.net.connect.stage = "sendSignal"])

\* createPeerConnection after await pc.setLocalDescription(offer).
createPeerConnection_setLocalDescription ==
  /\ net.connect.stage = "setLocalDescription"
  /\ LET p == net.connect.peer
     IN IF net.connect.closed \/ ~CanSetLocalOffer(am.peerConnections[p])
        THEN Step(createPeerConnection_catch(W))
        ELSE Step([W EXCEPT !.am.peerConnections[p] = SetLocalOffer(@),
                            !.net.connect.stage = "sendSignal"])

\* ------------------------------------------- the manager of another peer
\* The participant whose page is followed as well: it runs the same manager,
\* and far is the connection it keeps to the local session, the envelopes on
\* their way to it and the envelopes it has sent.
FarPeer == "a"

NoFar ==
  [kept |-> FALSE, rollback |-> FALSE, discovered |-> FALSE, pc |-> NoPc,
   inbox |-> <<>>, outbox |-> <<>>]

\* sendSignal has posted an envelope: the service holds it for its addressee.
Relay(w, to, type) ==
  IF w.net.far.kept /\ to = FarPeer
  THEN [w EXCEPT !.net.far.inbox = Append(@, type)]
  ELSE w

\* handleSignal as the other participant's manager runs it, all awaits done.
farHandleSignal(far, type, rollback) ==
  IF type = "offer"
  THEN LET pc == IF far.pc = NoPc THEN NewPc("responder") ELSE far.pc
       IN IF CanSetRemoteOffer(pc, rollback)
          THEN [far EXCEPT !.pc = SetLocalAnswer(SetRemoteOffer(pc)),
                           !.outbox = Append(@, "answer")]
          ELSE [far EXCEPT !.pc = pc]
  ELSE IF type = "answer" /\ far.pc # NoPc /\ CanSetRemoteAnswer(far.pc)
  THEN [far EXCEPT !.pc = SetRemoteAnswer(@)]
  ELSE far

\* connectToPeers of the other participant, whose roster lists the local
\* session: createPeerConnection stores the connection and sends its offer.
farConnectToPeers ==
  /\ net.far.kept /\ ~net.far.discovered
  /\ hp.hasJoined
  /\ IF net.far.pc = NoPc
     THEN Step([W EXCEPT !.net.far.pc = SetLocalOffer(NewPc("initiator")),
                         !.net.far.outbox = Append(@, "offer"),
                         !.net.far.discovered = TRUE])
     ELSE Step([W EXCEPT !.net.far.discovered = TRUE])

\* The poll callback of the other participant handles the next envelope.
farSignalPollingTick ==
  /\ net.far.kept
  /\ net.far.inbox # <<>>
  /\ Step([W EXCEPT !.net.far =
             farHandleSignal([@ EXCEPT !.inbox = Tail(@)], Head(net.far.inbox),
                             net.far.rollback)])

\* createPeerConnection after await this.sendSignal(peerId, 'offer', ...).
createPeerConnection_sendSignal ==
  /\ net.connect.stage = "sendSignal"
  /\ Step(connectToPeers(Relay(W, net.connect.peer, "offer"), net.connect.todo))

\* One run of the callback of startSignalPolling.
NewTick ==
  [stage |-> "fetch", left |-> 0, from |-> "none", type |-> "none",
   closed |-> FALSE, fresh |-> TRUE]

Remove(seq, i) == SubSeq(seq, 1, i - 1) \o SubSeq(seq, i + 1, Len(seq))

signalPollingTick ==
  /\ am.pollingInterval # 0
  /\ \E i \in tm.intervals : i.kind = "signal" /\ i.id = am.pollingInterval
  /\ Len(net.ticks) < log.ticks
  /\ Step([W EXCEPT !.net.ticks = Append(@, NewTick)])

\* The loop of the callback goes on to the next envelope, or ends.
NextSignal(w, i) ==
  LET t == w.net.ticks[i]
  IN IF t.left > 1
     THEN [w EXCEPT !.net.ticks[i] =
             [t EXCEPT !.stage = "next", !.left = @ - 1, !.from = "none",
                       !.type = "none", !.closed = FALSE]]
     ELSE [w EXCEPT !.net.ticks = Remove(@, i)]

\* The signals fetch is answered with n envelopes.
signalsResponse(i, ok, n) ==
  /\ i \in DOMAIN net.ticks
  /\ net.ticks[i].stage = "fetch"
  /\ IF ok /\ n > 0
     THEN Step([W EXCEPT !.net.ticks[i].stage = "next", !.net.ticks[i].left = n])
     ELSE n = 0 /\ Step(NextSignal(W, i))

SignalTypes == {"offer", "answer", "ice-candidate"}

\* A handler that treats every envelope as an offer.
handleSignal_everyEnvelopeAnOffer(w, i, from, type) ==
  LET w1 == [w EXCEPT !.net.ticks[i].stage = "setRemoteDescription",
                      !.net.ticks[i].from = from,
                      !.net.ticks[i].type = "offer"]
  IN IF HasPc(w, from) THEN w1
     ELSE [w1 EXCEPT !.am.peerConnections[from] = NewPc("responder")]

\* handleSignal up to its first await.
handleSignal(w, i, from, type) ==
  LET await(stage) == [w EXCEPT !.net.ticks[i].stage = stage,
                                !.net.ticks[i].from = from,
                                !.net.ticks[i].type = type]
  IN IF type = "offer"
     THEN LET w1 == await("setRemoteDescription")
          IN IF HasPc(w, from) THEN w1
             ELSE [w1 EXCEPT !.am.peerConnections[from] = NewPc("responder")]
     ELSE IF ~HasPc(w, from) THEN NextSignal([w EXCEPT !.log.dropped = TRUE], i)
     ELSE IF type = "answer" THEN await("setRemoteDescription")
     ELSE await("addIceCandidate")

handleSignalBegin(i, from, type) ==
  /\ i \in DOMAIN net.ticks
  /\ net.ticks[i].stage = "next"
  /\ Step(handleSignal(W, i, from, type))

\* A handler that commits offers only.
handleSignal_setRemoteDescription_offersOnly(i, rollback) ==
  /\ i \in DOMAIN net.ticks
  /\ net.ticks[i].stage = "setRemoteDescription"
  /\ LET t  == net.ticks[i]
         pc == am.peerConnections[t.from]
     IN IF t.type = "offer" /\ ~t.closed /\ CanSetRemoteOffer(pc, rollback)
        THEN Step([W EXCEPT !.am.peerConnections[t.from] = SetRemoteOffer(@),
                            !.net.ticks[i].stage = "createAnswer"])
        ELSE (t.type = "offer" \/ rollback) /\ Step(NextSignal(W, i))

\* handleSignal after await pc.setRemoteDescription(...).
handleSignal_setRemoteDescription(i, rollback) ==
  /\ i \in DOMAIN net.ticks
  /\ net.ticks[i].stage = "setRemoteDescription"
  /\ LET t  == net.ticks[i]
         pc == am.peerConnections[t.from]
     IN IF t.type = "offer"
        THEN IF ~t.closed /\ CanSetRemoteOffer(pc, rollback)
             THEN Step([W EXCEPT !.am.peerConnections[t.from] = SetRemoteOffer(@),
                                 !.net.ticks[i].stage = "createAnswer"])
             ELSE Step(NextSignal(W, i))
        ELSE /\ rollback
             /\ IF ~t.closed /\ CanSetRemoteAnswer(pc)
                THEN Step(NextSignal([W EXCEPT !.am.peerConnections[t.from] =
                                        SetRemoteAnswer(@)], i))
                ELSE Step(NextSignal(W, i))

\* handleSignal after await pc.createAnswer().
handleSignal_createAnswer(i) ==
  /\ i \in DOMAIN net.ticks
  /\ net.ticks[i].stage = "createAnswer"
  /\ LET t == net.ticks[i]
     IN IF ~t.closed /\ CanCreateAnswer(am.peerConnections[t.from])
        THEN Step([W EXCEPT !.net.ticks[i].stage = "setLocalDescription"])
        ELSE Step(NextSignal(W, i))

\* A handler that commits its answer and does not send it.
handleSignal_setLocalDescription_noAnswer(i) ==
  /\ i \in DOMAIN net.ticks
  /\ net.ticks[i].stage = "setLocalDescription"
  /\ LET t == net.ticks[i]
     IN IF ~t.closed /\ CanSetLocalAnswer(am.peerConnections[t.from])
        THEN Step(NextSignal([W EXCEPT !.am.peerConnections[t.from] =
                                SetLocalAnswer(@)], i))
        ELSE Step(NextSignal(W, i))

\* handleSignal after await pc.setLocalDescription(answer).
handleSignal_setLocalDescription(i) ==
  /\ i \in DOMAIN net.ticks
  /\ net.ticks[i].stage = "setLocalDescription"
  /\ LET t == net.ticks[i]
     IN IF ~t.closed /\ CanSetLocalAnswer(am.peerConnections[t.from])
        THEN Step([W EXCEPT !.am.peerConnections[t.from] = SetLocalAnswer(@),
                            !.net.ticks[i].stage = "sendSignal"])
        ELSE Step(NextSignal(W, i))

\* handleSignal after await this.sendSignal(from, 'answer', ...), and after
\* await pc.addIceCandidate(...).
handleSignal_done(i) ==
  /\ i \in DOMAIN net.ticks
  /\ net.ticks[i].stage \in {"sendSignal", "addIceCandidate"}
  /\ IF net.ticks[i].stage = "sendSignal"
     THEN Step(NextSignal(Relay(W, net.ticks[i].from, "answer"), i))
     ELSE Step(NextSignal(W, i))

\* The signals fetch is answered with envelopes the other participant sent.
farSignalsResponse(i, ok, n) ==
  /\ net.far.kept
  /\ n <= Len(net.far.outbox)
  /\ signalsResponse(i, ok, n)

\* The loop of the poll callback takes the next of them.
farHandleSignalBegin(i) ==
  /\ net.far.kept
  /\ i \in DOMAIN net.ticks
  /\ net.ticks[i].stage = "next"
  /\ net.far.outbox # <<>>
  /\ Step(handleSignal([W EXCEPT !.net.far.outbox = Tail(@)], i, FarPeer,
                       Head(net.far.outbox)))

\* A participant joins or leaves the sub-group at the service.
rosterChanges(s) ==
  /\ am.isInitialized
  /\ s # net.peers
  /\ Step([W EXCEPT !.net.peers = s,
                    !.net.ticks = [i \in DOMAIN @ |-> [net.ticks[i] EXCEPT !.fresh = FALSE]]])

\* pc.ontrack: the connection to p delivers a remote track, and an audio
\* element with the id of p is appended to document.body.
ontrack(p) ==
  /\ HasPc(W, p)
  /\ am.peerConnections[p].remote # "none"
  /\ tm.audio[p] < MaxTracks
  /\ Step([W EXCEPT !.tm.audio[p] = @ + 1])

\* --------------------------------------------------------- time passing
Clocked(i) == i.kind \in {"countdown", "position2"}

\* One second passes: no callback that is due is still waiting to run.
Tick ==
  /\ tm.timeouts # {} \/ \E i \in tm.intervals : Clocked(i)
  /\ \A t \in tm.timeouts : t.remaining > 0
  /\ \A i \in tm.intervals : ~i.due
  /\ Step([W EXCEPT
       !.tm.timeouts = {[t EXCEPT !.remaining = @ - 1] : t \in @},
       !.tm.intervals = {IF Clocked(i) THEN [i EXCEPT !.due = TRUE] ELSE i : i \in @}])

\* The countdown callback of startAutoSkipTimer.
timerIntervalTick ==
  \E i \in tm.intervals :
    /\ i.kind = "countdown" /\ i.due
    /\ LET left == i.secondsLeft - 1
           w1 == [W EXCEPT !.tm.intervals =
                    (@ \ {i}) \cup {[i EXCEPT !.secondsLeft = left, !.due = FALSE]}]
       IN Step(IF left <= 0 /\ w1.hp.timerInterval # 0
               THEN clearInterval(w1, w1.hp.timerInterval)
               ELSE w1)

\* The timeout callback of startAutoSkipTimer, up to its skip request.
autoSkipTimeoutFire ==
  \E t \in tm.timeouts :
    /\ t.kind = "autoSkip" /\ t.remaining = 0
    /\ LET w1 == [W EXCEPT !.tm.timeouts = @ \ {t}]
       IN IF t.hasStartedReading \/ t.sessionId = 0
          THEN Step(w1)
          ELSE /\ InFlight(net) < log.requests
               /\ Step([w1 EXCEPT !.net.autoSkip = @ + 1,
                                  !.log.autoSkips = IF @ < 2 THEN @ + 1 ELSE @])

autoSkipResponse(ok) ==
  /\ net.autoSkip > 0
  /\ LET w1 == [W EXCEPT !.net.autoSkip = @ - 1]
     IN Step(IF ok THEN [w1 EXCEPT !.net.status = @ + 1] ELSE w1)

\* The countdown callback of startPosition2Timer.
position2TimerIntervalTick ==
  \E i \in tm.intervals :
    /\ i.kind = "position2" /\ i.due
    /\ Step([W EXCEPT
         !.tm.intervals = (@ \ {i}) \cup {[i EXCEPT !.due = FALSE]},
         !.hp.position2Timer = IF @ <= 1 THEN 0 ELSE @ - 1])

\* The timeout callback of startPosition2Timer, up to its skip request.
position2TimeoutFire ==
  \E t \in tm.timeouts :
    /\ t.kind = "position2" /\ t.remaining = 0
    /\ LET w1 == [W EXCEPT !.tm.timeouts = @ \ {t}]
       IN IF t.sessionId = 0
          THEN Step(w1)
          ELSE /\ InFlight(net) < log.requests
               /\ Step([w1 EXCEPT !.net.position2Skip = @ + 1,
                                  !.log.autoSkips = IF @ < 2 THEN @ + 1 ELSE @])

\* ... and from the answer to the skip request on.
position2SkipResponse(ok) ==
  /\ net.position2Skip > 0
  /\ LET w1 == [W EXCEPT !.net.position2Skip = @ - 1]
     IN Step(clearPosition2Timer(IF ok THEN [w1 EXCEPT !.net.status = @ + 1] ELSE w1))

\* The Back button of the join screen.
Back ==
  /\ hp.userRole /\ ~hp.hasJoined
  /\ Step([W EXCEPT !.hp.userRole = FALSE])

\* ------------------------------------------------------- specification
InitState(build, peers, history, more) ==
  /\ hp = [build |-> build, userRole |-> FALSE, sessionId |-> 0, hasJoined |-> FALSE,
           queueStatus |-> "none", wasPosition2 |-> FALSE,
           hasStartedReading |-> FALSE, isMuted |-> TRUE,
           audioInitialized |-> FALSE, audioManager |-> FALSE,
           pollingInterval |-> 0, autoSkipTimeout |-> 0, timerInterval |-> 0,
           position2TimerInterval |-> 0, position2TimeoutRef |-> 0,
           isPosition2TimerActive |-> FALSE,
           position2Timer |-> POSITION_2_TIMER_DURATION]
  /\ am = NewAudioManager(0)
  /\ tm = [timeouts |-> {}, intervals |-> {}, audio |-> [p \in Peers |-> 0]]
  /\ net = [status |-> 0, autoSkip |-> 0, position2Skip |-> 0, actions |-> {},
            join |-> "none", leave |-> FALSE, gum |-> NoGum,
            connect |-> NoConnect, ticks |-> <<>>, peers |-> peers,
            far |-> [NoFar EXCEPT !.kept = "far" \in history,
                                  !.rollback = "farRollback" \in history]]
  /\ log = [joins |-> 0, autoSkips |-> 0, dropped |-> FALSE,
            position2Snapshots |-> 0,
            position1Snapshots |-> IF "position1Snapshots" \in history THEN 0 ELSE -1,
            failures |-> IF "failures" \in history THEN 0 ELSE -1,
            notifications |-> IF "notifications" \in history THEN 0 ELSE -1,
            abandoned |-> IF "abandoned" \in history THEN 0 ELSE -1,
            cancelled |-> IF "cancelled" \in history THEN 0 ELSE -1,
            sessions |-> MaxJoins + more.sessions,
            requests |-> MaxInFlight + more.requests,
            ticks |-> MaxInFlight + more.ticks]

\* The run is bounded to what the bounds say.
NoMore == [sessions |-> 0, requests |-> 0, ticks |-> 0]

InitWith(build, peers) == InitState(build, peers, {}, NoMore)

\* The page is loaded; nobody else is in the sub-group.
Init == InitWith("HomePage.js", {})

Next ==
  \/ ChooseRole
  \/ joinQueue
  \/ \E ok \in BOOLEAN : joinQueueResponse(ok)
  \/ \E res \in StatusResults, supported \in BOOLEAN : joinQueueStatus(res, supported)
  \/ captureGranted
  \/ captureDenied
  \/ pollingIntervalTick
  \/ \E res \in StatusResults : fetchQueueStatusResponse(res)
  \/ toggleMute
  \/ \E action \in Actions : handleAction(action)
  \/ \E action \in Actions, ok \in BOOLEAN : handleActionResponse(action, ok)
  \/ leaveQueue
  \/ \E resolved \in BOOLEAN : leaveQueueResponse(resolved)
  \/ Tick
  \/ timerIntervalTick
  \/ autoSkipTimeoutFire
  \/ \E ok \in BOOLEAN : autoSkipResponse(ok)
  \/ Back

Spec == Init /\ [][Next]_vars

\* part_002 is loaded, in a browser without getUserMedia: the page holds a
\* manager without stream and shows no mute button.
InitGetReady == InitWith("part_002", {})

NextGetReady ==
  \/ ChooseRole
  \/ Back
  \/ joinQueue
  \/ \E ok \in BOOLEAN : joinQueueResponse(ok)
  \/ \E res \in StatusResults : joinQueueStatus(res, FALSE)
  \/ pollingIntervalTick
  \/ \E res \in StatusResults : fetchQueueStatusResponse(res)
  \/ \E action \in Actions : handleAction(action)
  \/ \E action \in Actions, ok \in BOOLEAN : handleActionResponse(action, ok)
  \/ leaveQueue
  \/ \E resolved \in BOOLEAN : leaveQueueResponse(resolved)
  \/ Tick
  \/ position2TimerIntervalTick
  \/ position2TimeoutFire
  \/ \E ok \in BOOLEAN : position2SkipResponse(ok)

SpecGetReady == InitGetReady /\ [][NextGetReady]_vars

\* HomePage.js is loaded and the page may have one request more in flight
\* than the bound gives Spec: a status poll may be on its way while another
\* request is answered.
InitLate ==
  InitState("HomePage.js", {}, {}, [sessions |-> 0, requests |-> 1, ticks |-> 0])

SpecLate == InitLate /\ [][Next]_vars

\* part_002 is loaded and the run keeps count of the get-ready timeouts
\* cleared for a render at position 1.
InitCancel == InitState("part_002", {}, {"cancelled"}, NoMore)

SpecCancel == InitCancel /\ [][NextGetReady]_vars

\* HomePage.js is loaded and the run keeps count of the status fetches in a
\* row that failed and of the notifications raised.
InitHistory == InitState("HomePage.js", {}, {"failures", "notifications"}, NoMore)

SpecHistory == InitHistory /\ [][Next]_vars

\* HomePage.js is loaded and the run keeps count of the snapshots in a row
\* that report isPosition1.
InitRepeat == InitState("HomePage.js", {}, {"position1Snapshots"}, NoMore)

SpecRepeat == InitRepeat /\ [][Next]_vars

\* part_002 is loaded in the same browser, and the run may go through one
\* session more, with one request more in flight, than the bounds give the
\* other specifications: a response may outlive the session it was asked in.
InitRejoin ==
  InitState("part_002", {}, {}, [sessions |-> 1, requests |-> 1, ticks |-> 0])

SpecRejoin == InitRejoin /\ [][NextGetReady]_vars

\* Either build is loaded and runs its own handlers.
InitBuilds == Init \/ InitGetReady

NextBuilds ==
  \/ ~GetReadyBuild(W) /\ Next
  \/ GetReadyBuild(W) /\ NextGetReady

SpecBuilds == InitBuilds /\ [][NextBuilds]_vars

\* Envelopes one answer of the signals endpoint may carry.
MaxBatch == 1

\* The page is loaded; the sub-group has any of the other participants.
InitMesh == \E s \in SUBSET Peers : InitWith("HomePage.js", s)

\* The participant joins at position 1 and leaves the turn alone.
JoinAtPosition1 ==
  \/ ChooseRole
  \/ joinQueue
  \/ \E ok \in BOOLEAN : joinQueueResponse(ok)
  \/ \E supported \in BOOLEAN : joinQueueStatus("p1", supported)
  \/ captureGranted
  \/ captureDenied

ConnectToPeers ==
  \/ \E ok \in BOOLEAN, list \in Rosters : connectToPeersResponse(ok, list)
  \/ createPeerConnection_createOffer
  \/ createPeerConnection_setLocalDescription
  \/ createPeerConnection_sendSignal

\* The signalling service relays envelopes; the roster stays as it is.
NextMesh ==
  \/ JoinAtPosition1
  \/ ConnectToPeers
  \/ signalPollingTick
  \/ \E i \in 1..(MaxInFlight + 1), ok \in BOOLEAN, n \in 0..MaxBatch : signalsResponse(i, ok, n)
  \/ \E i \in 1..(MaxInFlight + 1), from \in Peers, type \in SignalTypes :
        handleSignalBegin(i, from, type)
  \/ \E i \in 1..(MaxInFlight + 1), rollback \in BOOLEAN :
        handleSignal_setRemoteDescription(i, rollback)
  \/ \E i \in 1..(MaxInFlight + 1) : handleSignal_createAnswer(i)
  \/ \E i \in 1..(MaxInFlight + 1) : handleSignal_setLocalDescription(i)
  \/ \E i \in 1..(MaxInFlight + 1) : handleSignal_done(i)

SpecMesh == InitMesh /\ [][NextMesh]_vars

\* The same, and the run keeps count of the connections createPeerConnection
\* gave up.
InitAbandon ==
  \E s \in SUBSET Peers : InitState("HomePage.js", s, {"abandoned"}, NoMore)

SpecAbandon == InitAbandon /\ [][NextMesh]_vars

\* The same with one run of the poll callback more than the bound gives
\* SpecMesh: a tick may fire while the one before is at work on its batch.
InitOverlap ==
  \E s \in SUBSET Peers :
    InitState("HomePage.js", s, {}, [sessions |-> 0, requests |-> 0, ticks |-> 1])

SpecOverlap == InitOverlap /\ [][NextMesh]_vars

\* Connections are offered while the participant toggles the microphone and
\* the queue service may end the session.
NextMute ==
  \/ JoinAtPosition1
  \/ ConnectToPeers
  \/ toggleMute
  \/ pollingIntervalTick
  \/ \E res \in {"p1", "notok"} : fetchQueueStatusResponse(res)

SpecMute == InitMesh /\ [][NextMute]_vars

\* The mesh is negotiated, the connections deliver remote tracks and the
\* queue service may end the session.
NextPlayback ==
  \/ NextMesh
  \/ \E p \in Peers : ontrack(p)
  \/ pollingIntervalTick
  \/ fetchQueueStatusResponse("notok")

SpecPlayback == InitMesh /\ [][NextPlayback]_vars

\* The sub-group has one other participant, whose manager is followed too;
\* its browser applies an offer over a pending local offer, or rejects it.
InitGlare ==
  \E browser \in SUBSET {"farRollback"} :
    InitState("HomePage.js", {FarPeer}, {"far"} \cup browser, NoMore)

\* Each of the two offers the other a connection when its roster lists it,
\* and the signalling service relays what they send.
NextGlare ==
  \/ JoinAtPosition1
  \/ ConnectToPeers
  \/ signalPollingTick
  \/ farConnectToPeers
  \/ farSignalPollingTick
  \/ \E i \in 1..(MaxInFlight + 1), ok \in BOOLEAN, n \in 0..MaxBatch :
        farSignalsResponse(i, ok, n)
  \/ \E i \in 1..(MaxInFlight + 1) : farHandleSignalBegin(i)
  \/ \E i \in 1..(MaxInFlight + 1), rollback \in BOOLEAN :
        handleSignal_setRemoteDescription(i, rollback)
  \/ \E i \in 1..(MaxInFlight + 1) : handleSignal_createAnswer(i)
  \/ \E i \in 1..(MaxInFlight + 1) : handleSignal_setLocalDescription(i)
  \/ \E i \in 1..(MaxInFlight + 1) : handleSignal_done(i)

SpecGlare == InitGlare /\ [][NextGlare]_vars

\* Participants come and go and the queue service may end the session; no
\* envelope is relayed.
NextRoster ==
  \/ JoinAtPosition1
  \/ pollingIntervalTick
  \/ \E res \in {"p1", "notok"} : fetchQueueStatusResponse(res)
  \/ ConnectToPeers
  \/ signalPollingTick
  \/ \E i \in 1..(MaxInFlight + 1), ok \in BOOLEAN : signalsResponse(i, ok, 0)
  \/ \E s \in SUBSET Peers : rosterChanges(s)

SpecRoster == Init /\ [][NextRoster]_vars

\* ------------------------------------------------- what the page shows
\* The queue screen is rendered: a role is chosen and the queue is joined.
Joined == hp.userRole /\ hp.hasJoined /\ hp.sessionId # 0

\* The turn card offers start and skip.
Position1Idle == Joined /\ isPosition1(hp.queueStatus) /\ ~hp.hasStartedReading

\* The turn card offers finish.
Position1Reading == Joined /\ isPosition1(hp.queueStatus) /\ hp.hasStartedReading

\* No request of the page is in flight and no capture request is pending.
Quiet == InFlight(net) = 0 /\ ~net.gum.pending

\* The timeout autoSkipTimeout.current refers to is pending.
AutoSkipArmed ==
  \E t \in tm.timeouts : t.kind = "autoSkip" /\ t.id = hp.autoSkipTimeout

\* ... and has its whole duration ahead.
AutoSkipArmedFull ==
  \E t \in tm.timeouts :
    /\ t.kind = "autoSkip" /\ t.id = hp.autoSkipTimeout
    /\ t.remaining = AUTO_SKIP_SECONDS

TurnTimers ==
  {t.id : t \in {x \in tm.timeouts : x.kind = "autoSkip"}}
    \cup {i.id : i \in {x \in tm.intervals : x.kind = "countdown"}}

\* A status fetch of fetchQueueStatus has been answered in this step.
StatusArrives ==
  \/ net'.status = net.status - 1
  \/ net.join = "status" /\ net'.join = "none"

\* initialize has returned false and the page still holds the manager.
CaptureFailed ==
  Joined /\ hp.audioManager /\ ~am.isInitialized /\ ~net.gum.pending

\* ================================================================ claims

\* C1: in every state of a joined client with no request in flight, the
\* local track is unmuted (AudioManager.isMuted = false) if and only if the
\* latest snapshot has isPosition1 and hasStartedReading is true.
C1_UnmutedIffReading ==
  (Joined /\ hp.audioManager /\ Quiet) => (~am.isMuted <=> Position1Reading)

\* C2: a snapshot with isPosition1 that arrives while hasStartedReading is
\* false leaves the auto-skip timeout pending, and as long as start has not
\* been acted on at position 1 the local track is muted.
C2_ArmedAndMutedUntilStart ==
  [][ /\ (StatusArrives /\ Position1Idle') => AutoSkipArmed'
      /\ (Position1Idle' /\ hp'.audioManager) => am'.isMuted ]_vars

\* C3: once the auto-skip timeout has sent its skip, it has sent exactly
\* one, no turn timer is pending and both handles (autoSkipTimeout.current,
\* timerInterval.current) are cleared.
C3_ExpiryClearsTimers ==
  log.autoSkips >= 1 =>
    /\ log.autoSkips = 1
    /\ TurnTimers = {}
    /\ hp.autoSkipTimeout = 0 /\ hp.timerInterval = 0

\* C4: every step in which the shown snapshot's isPosition1 becomes true
\* while hasStartedReading is false starts an auto-skip timeout with the
\* whole duration ahead.
C4_EveryTurnArmsTimer ==
  [][ (~isPosition1(hp.queueStatus) /\ Position1Idle') => AutoSkipArmedFull' ]_vars

\* C9: after a failed initialize the manager's mute flag and the page's
\* isMuted keep their initial value (muted), and the manager runs no signal
\* poll loop and holds no stream.
C9_NoMuteSideEffectAfterFailure ==
  CaptureFailed =>
    /\ am.isMuted /\ hp.isMuted
    /\ am.pollingInterval = 0 /\ ~am.localStream

\* C11: a joined client has never seen three status fetches in a row fail
\* in transport: the third failure ends the session.
C11_ThreeFailuresEndSession ==
  log.failures >= 3 => ~hp.hasJoined /\ hp.sessionId = 0

\* C12: cleanup called on any manager, initialized or not, leaves no signal
\* poll loop, no peer connection, no local stream and isInitialized false,
\* and cleanup called again right after leaves everything as the first call
\* left it.
C12_CleanupIdempotent ==
  LET once == AM_cleanup(W)
  IN /\ AM_cleanup(once) = once
     /\ once.am.pollingInterval = 0
     /\ ~\E i \in once.tm.intervals : i.kind = "signal" /\ i.id = am.pollingInterval
     /\ Connected(once) = {}
     /\ ~once.am.localStream /\ ~once.am.isInitialized

\* A manager with its poll loop running, a stream and a connection, which
\* cleanup changes.
C12_Witness ==
  /\ am.isInitialized /\ am.localStream
  /\ \E i \in tm.intervals : i.kind = "signal" /\ i.id = am.pollingInterval
  /\ Connected(W) # {}
  /\ AM_cleanup(W) # W

\* C13: the step in which a run of the signal poll callback of a live
\* manager ends, its signals fetch answered ok and every envelope applied,
\* leaves a pass of connectToPeers under way (its roster fetch in flight or
\* a connection being set up).
C13_TickDiscoversPeers ==
  [][ \A i \in 1..MaxInFlight :
        (signalsResponse(i, TRUE, 0) /\ am.isInitialized) =>
          net'.connect.stage # "idle" ]_vars

\* C14: the step in which start is clicked in Position1Idle cancels the
\* auto-skip timer, makes hasStartedReading true and unmutes the manager
\* the page holds: the timer is never cancelled by a start that leaves the
\* coordinator in Position1Idle.
C14_StartIsOneTransition ==
  [][ (handleAction("start") /\ Position1Idle) =>
        /\ TurnTimers' = {}
        /\ Position1Reading'
        /\ hp.audioManager => ~am'.isMuted ]_vars

\* C15: the step in which skip or finish is clicked leaves no turn timer
\* pending and the manager the page holds muted, and the step in which the
\* queue service answers the action ok leaves hasStartedReading false,
\* before any further snapshot is shown.
C15_SkipFinishEndTurn ==
  [][ \A action \in {"skip", "finish"} :
        /\ handleAction(action) =>
             /\ TurnTimers' = {}
             /\ hp.audioManager => am'.isMuted /\ hp'.isMuted
        /\ handleActionResponse(action, TRUE) => ~hp'.hasStartedReading ]_vars

\* The get-ready timer: its timeout and its countdown, the refs to them and
\* what the page shows of it.
GetReadyTimeouts == {t \in tm.timeouts : t.kind = "position2"}

GetReadyIntervals == {i \in tm.intervals : i.kind = "position2"}

GetReadyTimer ==
  <<GetReadyTimeouts, GetReadyIntervals, hp.position2TimeoutRef,
    hp.position2TimerInterval, hp.position2Timer, hp.isPosition2TimerActive>>

\* A status fetch is answered with a snapshot that reports isPosition2.
SnapshotPosition2 ==
  \/ fetchQueueStatusResponse("p2")
  \/ \E supported \in BOOLEAN : joinQueueStatus("p2", supported)

\* C5: the step that shows a snapshot with isPosition2 after one without
\* leaves exactly one get-ready timeout, with the whole duration ahead, and
\* one countdown; the step that shows a snapshot with isPosition2 after one
\* that had it too leaves the timeout, the countdown, the refs to them and
\* the seconds shown exactly as they are; never is there a second timeout
\* or a second countdown.
C5_OneGetReadyTimer ==
  [][ /\ (SnapshotPosition2 /\ ~isPosition2(hp.queueStatus)) =>
           /\ Cardinality(GetReadyTimeouts') = 1
           /\ \A t \in GetReadyTimeouts' :
                t.remaining = POSITION_2_TIMER_DURATION /\ t.id = hp'.position2TimeoutRef
           /\ Cardinality(GetReadyIntervals') = 1
           /\ hp'.isPosition2TimerActive
           /\ hp'.position2Timer = POSITION_2_TIMER_DURATION
      /\ (SnapshotPosition2 /\ isPosition2(hp.queueStatus)) =>
           GetReadyTimer' = GetReadyTimer
      /\ Cardinality(GetReadyTimeouts') <= 1
      /\ Cardinality(GetReadyIntervals') <= 1 ]_vars

\* A second snapshot in a row reports isPosition2 and the timer the first one
\* started is part of its way down.
C5_Witness ==
  /\ log.position2Snapshots = 2
  /\ isPosition2(hp.queueStatus)
  /\ hp.isPosition2TimerActive
  /\ hp.position2Timer < POSITION_2_TIMER_DURATION
  /\ \E t \in GetReadyTimeouts :
       /\ t.id = hp.position2TimeoutRef
       /\ t.remaining < POSITION_2_TIMER_DURATION

\* C16: the step that shows a snapshot with isPosition2 after one without
\* starts the get-ready countdown; the step in which its timeout expires
\* while the joined participant is still at position 2 sends one skip and
\* leaves no get-ready timeout that could send another; the step in which
\* that skip is answered, ok or not, leaves the get-ready timer inactive: no
\* timeout, no countdown, both refs null.
C16_GetReadyExpiry ==
  [][ /\ (SnapshotPosition2 /\ ~isPosition2(hp.queueStatus)) =>
           hp'.isPosition2TimerActive /\ GetReadyIntervals' # {}
      /\ (position2TimeoutFire /\ Joined /\ isPosition2(hp.queueStatus)) =>
           /\ net'.position2Skip = net.position2Skip + 1
           /\ GetReadyTimeouts' = {}
      /\ \A ok \in BOOLEAN :
           position2SkipResponse(ok) =>
             /\ ~hp'.isPosition2TimerActive
             /\ GetReadyTimeouts' = {} /\ GetReadyIntervals' = {}
             /\ hp'.position2TimeoutRef = 0 /\ hp'.position2TimerInterval = 0 ]_vars

\* A status fetch is answered with a snapshot that reports neither
\* isPosition1 nor isPosition2.
SnapshotOther ==
  \/ fetchQueueStatusResponse("other")
  \/ \E supported \in BOOLEAN : joinQueueStatus("other", supported)

\* C17: the step that shows a snapshot with neither isPosition1 nor
\* isPosition2, whatever was shown before, leaves no auto-skip timeout, no
\* turn countdown and no get-ready timer pending, the track of the manager
\* the page holds muted, and hasStartedReading false.
C17_OtherPositionResets ==
  [][ SnapshotOther =>
        /\ TurnTimers' = {}
        /\ GetReadyTimeouts' = {} /\ GetReadyIntervals' = {}
        /\ hp'.audioManager => am'.isMuted
        /\ ~hp'.hasStartedReading ]_vars

AutoSkipTimeouts == {t \in tm.timeouts : t.kind = "autoSkip"}

\* C18: in every reachable state of either build at most one auto-skip
\* timeout and at most one get-ready timeout is pending.
C18_OneTimerOfEachKind ==
  /\ Cardinality(AutoSkipTimeouts) <= 1
  /\ Cardinality(GetReadyTimeouts) <= 1

\* The get-ready countdown has expired once and sent its skip, and a later
\* snapshot with isPosition2 has started the one that is pending now.
C18_Witness ==
  /\ Joined /\ isPosition2(hp.queueStatus)
  /\ log.autoSkips >= 1 /\ net.position2Skip = 0
  /\ \E t \in GetReadyTimeouts :
       /\ t.id = hp.position2TimeoutRef
       /\ t.remaining < POSITION_2_TIMER_DURATION

\* C19: a step raises the turn notification only if it shows a snapshot with
\* isPosition1 where the snapshot before had isPosition2.
C19_NotificationFromPosition2 ==
  [][ log'.notifications # log.notifications =>
        isPosition2(hp.queueStatus) /\ isPosition1(hp'.queueStatus) ]_vars

\* A status poll is answered with isPosition1 = true, as the snapshot
\* before it was.
SnapshotPosition1Again ==
  fetchQueueStatusResponse("p1") /\ isPosition1(hp.queueStatus)

\* C20: the step that shows a second snapshot in a row with isPosition1
\* leaves, in Position1Idle, the pending auto-skip timeout as it was (same
\* handle, same time left, same ref) and, in Position1Reading, the mute state
\* of the manager and of the page as it was; and the timeout that was set in
\* this session and expires in Position1Idle after such a snapshot sends its
\* skip.
C20_RepeatedSnapshotIsInert ==
  [][ /\ (SnapshotPosition1Again /\ Position1Idle) =>
           /\ AutoSkipTimeouts' = AutoSkipTimeouts
           /\ hp'.autoSkipTimeout = hp.autoSkipTimeout
      /\ (SnapshotPosition1Again /\ Position1Reading) =>
           /\ am'.isMuted = am.isMuted
           /\ hp'.isMuted = hp.isMuted
      /\ ( /\ autoSkipTimeoutFire
           /\ Position1Idle /\ log.position1Snapshots = 2
           /\ \A t \in AutoSkipTimeouts : t.sessionId = hp.sessionId ) =>
           net'.autoSkip = net.autoSkip + 1 ]_vars

\* Two snapshots in a row have reported isPosition1 and the auto-skip timeout
\* set on entry is part of its way down.
C20_Witness ==
  /\ Position1Idle /\ log.position1Snapshots = 2
  /\ \E t \in AutoSkipTimeouts :
       /\ t.id = hp.autoSkipTimeout
       /\ t.remaining < AUTO_SKIP_SECONDS

C22_SamePeerInOrder ==
  [][ \A i \in DOMAIN net.ticks, from \in Peers, type \in SignalTypes :
        handleSignalBegin(i, from, type) =>
          \A j \in DOMAIN net.ticks : j # i => net.ticks[j].from # from ]_vars

\* C23: the step in which setRemoteDescription settles for an answer
\* envelope changes a connection only if the connection of the sender was
\* created by createPeerConnection (the offering role), and then it changes
\* that connection alone, to a committed answer; an answer from a peer whose
\* connection was created by handleSignal for an offer, and an answer from a
\* peer without connection, change no connection.
C23_AnswerOnlyOnInitiator ==
  [][ \A i \in 1..(MaxInFlight + 1), from \in Peers :
        /\ ( /\ \E rollback \in BOOLEAN : handleSignal_setRemoteDescription(i, rollback)
             /\ net.ticks[i].type = "answer" /\ net.ticks[i].from = from ) =>
             /\ am.peerConnections[from].role # "initiator" =>
                  am'.peerConnections = am.peerConnections
             /\ am'.peerConnections # am.peerConnections =>
                  /\ am'.peerConnections[from].role = "initiator"
                  /\ am'.peerConnections[from].remote = "answer"
                  /\ \A p \in Peers \ {from} :
                       am'.peerConnections[p] = am.peerConnections[p]
        /\ (handleSignalBegin(i, from, "answer") /\ ~HasPc(W, from)) =>
             am'.peerConnections = am.peerConnections ]_vars

\* handleSignal is at work on an answer from a peer whose connection was
\* created for an offer of that peer.
C23_Witness ==
  \E i \in DOMAIN net.ticks :
    /\ net.ticks[i].type = "answer"
    /\ net.ticks[i].stage = "setRemoteDescription"
    /\ am.peerConnections[net.ticks[i].from].role = "responder"

\* createPeerConnection is about to fail for the peer it is at work on: the
\* connection was closed under it, or took an offer of the peer and cannot
\* take the local offer.
CreateFails ==
  \/ createPeerConnection_createOffer /\ net.connect.closed
  \/ /\ createPeerConnection_setLocalDescription
     /\ \/ net.connect.closed
        \/ ~CanSetLocalOffer(am.peerConnections[net.connect.peer])

\* The entries connectToPeers has still to go through that it will not pass
\* over.
Remaining ==
  {k \in DOMAIN net.connect.todo :
     net.connect.todo[k] # Self /\ ~HasPc(W, net.connect.todo[k])}

\* C24: the step in which createPeerConnection fails for a peer leaves the
\* connection record of that peer and of every peer with a connection as
\* they are, does not start over with that peer, and goes on with the loop of
\* connectToPeers: the first remaining entry of the roster gets a new
\* connection and its createOffer is awaited; without one the pass ends.
C24_FailureIsolated ==
  [][ CreateFails =>
        /\ \A p \in Connected(W) \cup {net.connect.peer} :
             am'.peerConnections[p] = am.peerConnections[p]
        /\ net'.connect.peer # net.connect.peer
        /\ IF Remaining = {}
           THEN net'.connect.stage = "idle" /\ am'.peerConnections = am.peerConnections
           ELSE \E k \in Remaining :
                  /\ \A m \in Remaining : k <= m
                  /\ net'.connect.stage = "createOffer"
                  /\ net'.connect.peer = net.connect.todo[k]
                  /\ am'.peerConnections[net.connect.todo[k]] = NewPc("initiator") ]_vars

\* createPeerConnection has given up one peer and is at work on another.
C24_Witness ==
  /\ log.abandoned = 1
  /\ net.connect.stage \in {"createOffer", "setLocalDescription", "sendSignal"}
  /\ \E p \in Connected(W) \ {net.connect.peer} :
       am.peerConnections[p].role = "initiator"

\* A session was joined and has ended, by a leave or by an invalidation.
SessionEnded == log.joins >= 1 /\ ~hp.hasJoined /\ hp.sessionId = 0

\* The intervals of startPolling and of startSignalPolling that are set.
PollLoops == {i \in tm.intervals : i.kind \in {"poll", "signal"}}

\* C25: while a session that has ended is not followed by a new one, neither
\* the interval of the status poll nor the interval of the signal poll is
\* set, and ending the session once more changes no timer.
C25_LoopsStayStopped ==
  SessionEnded =>
    /\ PollLoops = {}
    /\ handleSessionEnd(W).tm = tm

\* C26: when leaveQueue is over, whether its request was answered or failed,
\* the session id is null, the client is unjoined, no timer and no poll loop
\* is set, and the manager is released with its connections and capture.
C26_LeaveDestroysSession ==
  [][ (\E resolved \in BOOLEAN : leaveQueueResponse(resolved)) =>
        /\ hp'.sessionId = 0
        /\ ~hp'.hasJoined
        /\ tm'.intervals = {}
        /\ tm'.timeouts = {}
        /\ ~hp'.audioManager
        /\ Connected([W EXCEPT !.am = am']) = {}
        /\ ~am'.localStream ]_vars

\* Envelopes the manager has handed to sendSignal and that are on their way.
SendsInFlight ==
  Cardinality({j \in DOMAIN net.ticks : net.ticks[j].stage = "sendSignal"})
    + (IF net.connect.stage = "sendSignal" THEN 1 ELSE 0)

\* C6: handleSignal for an answer or an ice-candidate envelope from a peer
\* without an entry in peerConnections leaves peerConnections as it is,
\* sends no envelope and returns without awaiting anything: the loop of the
\* poll callback is at its next envelope or has ended.
C6_UnknownPeerEnvelopeDropped ==
  [][ \A i \in 1..MaxInFlight, from \in Peers, type \in {"answer", "ice-candidate"} :
        (handleSignalBegin(i, from, type) /\ ~HasPc(W, from)) =>
          /\ am'.peerConnections = am.peerConnections
          /\ SendsInFlight' = SendsInFlight
          /\ \/ Len(net'.ticks) = Len(net.ticks) - 1
             \/ /\ net'.ticks[i].stage = "next"
                /\ net'.ticks[i].left = net.ticks[i].left - 1 ]_vars

\* An envelope was dropped while a connection to another peer was there.
C6_Witness ==
  /\ log.dropped
  /\ Connected(W) # {} /\ Connected(W) # Peers

\* A run of the signal poll callback that started after the last change of
\* the roster ends in this step and leaves the manager at rest.
TickSettles ==
  /\ \E i \in DOMAIN net.ticks :
       net.ticks[i].fresh /\ net'.ticks = Remove(net.ticks, i)
  /\ am'.isInitialized
  /\ net'.connect.stage = "idle" /\ net'.ticks = <<>>

\* C7: when a signalling tick that started after the last change of the
\* roster has completed and the manager is at rest, the peers with a
\* connection are exactly the peers of the roster (one connection each:
\* peerConnections is a map).
C7_ConnectionsFollowRoster ==
  [][ TickSettles => Connected(W)' = net'.peers ]_vars

Negotiated(pc) ==
  pc.role = "initiator" /\ pc.signalingState = "stable" /\ pc.remote = "answer"

\* C8: when setRemoteDescription settles for an answer from P, a connection
\* to P that holds the local offer becomes negotiated (stable, the answer
\* its remote description), and a connection that is negotiated already
\* stays exactly as it is.
C8_AnswerNegotiatesOnce ==
  [][ \A i \in 1..MaxInFlight :
        (handleSignal_setRemoteDescription(i, TRUE) /\ net.ticks[i].type = "answer") =>
          LET p  == net.ticks[i].from
              pc == am.peerConnections[p]
          IN /\ (pc.role = "initiator" /\ pc.signalingState = "have-local-offer")
                  => Negotiated(am'.peerConnections[p])
             /\ Negotiated(pc) => am'.peerConnections[p] = pc ]_vars

\* A second answer from P is being applied to the negotiated connection to P.
C8_Witness ==
  \E i \in DOMAIN net.ticks :
    /\ net.ticks[i].stage = "setRemoteDescription"
    /\ net.ticks[i].type = "answer"
    /\ Negotiated(am.peerConnections[net.ticks[i].from])

\* A status fetch is answered with a response that is not ok.
SessionInvalidated ==
  \/ fetchQueueStatusResponse("notok")
  \/ \E supported \in BOOLEAN : joinQueueStatus("notok", supported)

\* C10: the step that handles a status response that is not ok leaves no
\* status poll interval and no turn timer pending, the manager the page held
\* without poll loop, connections and stream, and the page without manager,
\* unjoined, with no session id and no snapshot.
C10_InvalidationTearsDown ==
  [][ SessionInvalidated =>
        /\ ~\E i \in tm'.intervals : i.kind = "poll"
        /\ TurnTimers' = {}
        /\ hp.audioManager =>
             /\ am'.pollingInterval = 0
             /\ ~\E i \in tm'.intervals : i.kind = "signal" /\ i.id = am.pollingInterval
             /\ Connected(W)' = {}
             /\ ~am'.localStream /\ ~am'.isInitialized
        /\ ~hp'.audioManager
        /\ ~hp'.hasJoined /\ hp'.sessionId = 0 /\ hp'.queueStatus = "none" ]_vars

\* The session was ended while createPeerConnection was at work: the
\* connection it had stored is closed and gone, and the refs still hold the
\* handles of the timers that were stopped.
C10_Witness ==
  /\ ~hp.userRole /\ ~hp.hasJoined /\ log.joins >= 1
  /\ net.connect.closed /\ Connected(W) = {}
  /\ hp.pollingInterval # 0 /\ hp.autoSkipTimeout # 0

\* initializeAudio runs: the page constructs a manager and holds it in its ref.
ManagerConstructed ==
  \E res \in StatusResults, supported \in BOOLEAN :
    joinQueueStatus(res, supported) /\ hp'.audioManager /\ am'.sessionId # 0

\* C27: a toggleMute of the page on its manager inverts the mute flag, sets
\* the enablement of the local track to the opposite of the new flag, and
\* leaves the connection records, the work of connectToPeers and of the poll
\* callbacks, the envelopes on their way and the capture as they are; the
\* capture ends only in a step that releases the manager (a step in which the
\* page constructs its next manager starts the record of that manager, whose
\* capture has not begun).
C27_MuteTouchesOnlyMute ==
  [][ /\ (toggleMute /\ hp.audioManager) =>
           /\ am'.isMuted = ~am.isMuted
           /\ am'.enabled = (am.localStream /\ am.isMuted)
           /\ am'.peerConnections = am.peerConnections
           /\ net'.connect = net.connect
           /\ net'.ticks = net.ticks
           /\ SendsInFlight' = SendsInFlight
           /\ am'.localStream = am.localStream
           /\ am'.pollingInterval = am.pollingInterval
      /\ (am.localStream /\ ~am'.localStream) =>
           \/ hp.audioManager /\ ~hp'.audioManager
           \/ ManagerConstructed ]_vars

\* The microphone, open since the join at position 1, was muted while two connections are under
\* negotiation and the offer of one of them is on its way.
C27_Witness ==
  /\ am.localStream /\ am.isMuted /\ ~am.enabled /\ hp.isMuted
  /\ net.connect.stage = "sendSignal"
  /\ \E p, q \in Connected(W) :
       /\ p # q
       /\ am.peerConnections[p].signalingState = "have-local-offer"
       /\ am.peerConnections[q].signalingState = "have-local-offer"

\* Callback i is inside handleSignal for an offer of peer from, at the await
\* named by stage, and the connection of from is pc.
Answering(i, from, stage, pc) ==
  /\ i \in DOMAIN net.ticks
  /\ net.ticks[i].type = "offer" /\ net.ticks[i].from = from
  /\ net.ticks[i].stage = stage /\ ~net.ticks[i].closed
  /\ am.peerConnections[from] = pc

\* Callback i is suspended at the await named by stage after the step.
AtAwait(i, stage) ==
  i \in DOMAIN net'.ticks /\ net'.ticks[i].stage = stage

\* The loop of callback i has left the envelope it was at.
MovedOn(i) ==
  \/ Len(net'.ticks) = Len(net.ticks) - 1
  \/ AtAwait(i, "next") /\ net'.ticks[i].left = net.ticks[i].left - 1

\* C28: handleSignal for an offer of a peer without a connection record
\* stores one new connection, for that peer and as responder, and changes no
\* other record; each await of the handler that finds the connection as the
\* step before left it goes on to the next: the offer becomes the remote
\* description, the answer is created and committed, one answer envelope to
\* that peer is handed to sendSignal, and the handler is over when it is sent.
C28_OfferAnswered ==
  [][ \A i \in 1..(MaxInFlight + 1), from \in Peers :
        /\ (handleSignalBegin(i, from, "offer") /\ ~HasPc(W, from)) =>
             /\ am'.peerConnections =
                  [am.peerConnections EXCEPT ![from] = NewPc("responder")]
             /\ AtAwait(i, "setRemoteDescription")
             /\ net'.ticks[i].from = from
             /\ SendsInFlight' = SendsInFlight
        /\ ( /\ Answering(i, from, "setRemoteDescription", NewPc("responder"))
             /\ \E rollback \in BOOLEAN : handleSignal_setRemoteDescription(i, rollback) ) =>
             /\ am'.peerConnections =
                  [am.peerConnections EXCEPT ![from] =
                     [role |-> "responder", signalingState |-> "have-remote-offer",
                      remote |-> "offer"]]
             /\ AtAwait(i, "createAnswer")
             /\ SendsInFlight' = SendsInFlight
        /\ ( /\ Answering(i, from, "createAnswer", SetRemoteOffer(NewPc("responder")))
             /\ handleSignal_createAnswer(i) ) =>
             /\ am'.peerConnections = am.peerConnections
             /\ AtAwait(i, "setLocalDescription")
             /\ SendsInFlight' = SendsInFlight
        /\ ( /\ Answering(i, from, "setLocalDescription", SetRemoteOffer(NewPc("responder")))
             /\ handleSignal_setLocalDescription(i) ) =>
             /\ am'.peerConnections =
                  [am.peerConnections EXCEPT ![from] =
                     [role |-> "responder", signalingState |-> "stable",
                      remote |-> "offer"]]
             /\ AtAwait(i, "sendSignal")
             /\ net'.ticks[i].from = from
             /\ SendsInFlight' = SendsInFlight + 1
        /\ ( /\ Answering(i, from, "sendSignal", am.peerConnections[from])
             /\ handleSignal_done(i) ) =>
             /\ am'.peerConnections = am.peerConnections
             /\ SendsInFlight' = SendsInFlight - 1
             /\ MovedOn(i) ]_vars

\* The answer to the offer of a peer is on its way on a connection that the
\* offer made, while a connection to another peer is on offer.
C28_Witness ==
  \E i \in DOMAIN net.ticks :
    /\ net.ticks[i].type = "offer" /\ net.ticks[i].stage = "sendSignal"
    /\ am.peerConnections[net.ticks[i].from] =
         [role |-> "responder", signalingState |-> "stable", remote |-> "offer"]
    /\ \E q \in Connected(W) : am.peerConnections[q].role = "initiator"

\* The step calls createPeerConnection: connectToPeers is at the first await
\* of the call for a peer it was not at before.
CreateBegins ==
  /\ net'.connect.stage = "createOffer"
  /\ net.connect.stage # "createOffer" \/ net'.connect.peer # net.connect.peer

\* C29: every createPeerConnection that connectToPeers calls is for a peer
\* other than the local session id that had no connection record, whoever
\* made the records there are, and stores the initiator record of that peer
\* and changes no other; records are stored for other participants only.
C29_NoSelfNoSecondOffer ==
  [][ /\ CreateBegins =>
           /\ net'.connect.peer \in Peers
           /\ ~HasPc(W, net'.connect.peer)
           /\ am'.peerConnections =
                [am.peerConnections EXCEPT ![net'.connect.peer] = NewPc("initiator")]
      /\ DOMAIN am'.peerConnections = Peers ]_vars

\* A pass of connectToPeers over a roster with both peers is over: one peer
\* had made its offer before the pass came to it and kept its responder
\* record, the other was offered a connection.
C29_Witness ==
  /\ am.isInitialized /\ net.connect.stage = "idle"
  /\ net.peers = Peers
  /\ \E p, q \in Peers :
       /\ am.peerConnections[p].role = "responder"
       /\ am.peerConnections[q] =
            [role |-> "initiator", signalingState |-> "have-local-offer",
             remote |-> "none"]

\* C30: when the manager is released, cleanup has run and document.body has
\* no audio element of any peer, whatever the number of remote tracks the
\* connections delivered.
C30_NoPlaybackAfterTeardown ==
  [][ (hp.audioManager /\ ~hp'.audioManager) =>
        \A p \in Peers : tm'.audio[p] = 0 ]_vars

C32_AutoSkipPendingAtPosition1 ==
  (Position1Idle /\ Quiet) => AutoSkipArmed

\* C33: a manager the page has released, and whose initialize is not waiting
\* for the capture, holds no local stream, has no signal poll interval and
\* has no connection record.
C33_ReleasedManagerStaysIdle ==
  (~hp.audioManager /\ ~net.gum.pending) =>
    /\ ~am.localStream
    /\ am.pollingInterval = 0
    /\ Connected(W) = {}

\* C34: once cleanup has run and the page has released the manager, and for
\* as long as no initialize of that manager completes, every step leaves
\* peerConnections empty and hands no envelope to sendSignal.
C34_NoConnectionAfterCleanup ==
  [][ (~hp.audioManager /\ ~am.isInitialized /\ ~am'.isInitialized) =>
        /\ \A p \in Peers : am'.peerConnections[p] = NoPc
        /\ SendsInFlight' <= SendsInFlight ]_vars

\* C35: a status fetch that is answered after the session has ended leaves
\* the page unjoined with no snapshot, sets and clears no timer, and leaves
\* the mute state of the page and of the manager as they are.
C35_LatePollIsInert ==
  [][ (SessionEnded /\ StatusArrives) =>
        /\ hp'.queueStatus = "none"
        /\ ~hp'.hasJoined /\ hp'.sessionId = 0
        /\ tm' = tm
        /\ hp'.isMuted = hp.isMuted
        /\ am'.isMuted = am.isMuted ]_vars

\* Nothing is on its way between the two managers and neither is at work on
\* a connection.
Settled ==
  /\ net.far.inbox = <<>> /\ net.far.outbox = <<>>
  /\ net.connect.stage = "idle"
  /\ \A i \in DOMAIN net.ticks : net.ticks[i].stage = "fetch"

\* C36: when each of the two participants has offered the other a connection
\* and every envelope they sent has been handled, at least one of the two
\* connections has a remote description.
C36_GlareResolves ==
  ( /\ Settled
    /\ am.peerConnections[FarPeer].role = "initiator"
    /\ net.far.pc.role = "initiator" ) =>
     \/ am.peerConnections[FarPeer].remote # "none"
     \/ net.far.pc.remote # "none"

\* C37: while the manager holds a local stream, its track is enabled exactly
\* when isMuted is false; getMuteState returns isMuted.
C37_TrackFollowsMute ==
  /\ am.localStream => (am.enabled = ~am.isMuted)
  /\ AM_getMuteState(W) = am.isMuted

\* The participant waits at another position, where initialize started the
\* capture muted, and has switched the microphone on.
C37_Witness ==
  /\ Joined /\ hp.queueStatus = "other"
  /\ hp.audioManager /\ am.localStream
  /\ ~am.isMuted /\ am.enabled /\ ~hp.isMuted

====
